---- MODULE Spec2Model ----
(***************************************************************************)
(* A model of arcaea.py: the text distance helpers, the chart resolver,    *)
(* the rating functions and the add_scores ingestion loop.                 *)
(*                                                                         *)
(* Python strings are modelled as sequences of one-character strings, so   *)
(* that the edit distance is computed character by character as the code   *)
(* computes it.                                                            *)
(***************************************************************************)
EXTENDS Integers, Sequences, FiniteSets, TLC

VARIABLES
    \* ---- the process running `add scores` (add_scores, arcaea.py:269) ----
    all_charts,     \* the catalog loaded at import time (arcaea.py:122)
    input_files,    \* sys.argv[4:], each path with the file found behind it
    pc,             \* position of the process inside add_scores
    idx,            \* 1-based position of the for loop in input_files
    user_id,        \* result of get_user_id
    parsed,         \* the tuple returned by parse_score_image for input_files[idx]
    resolved,       \* the (chart, distance) pair returned by find_chart_by_name
    score_id,       \* id returned by the INSERT ... RETURNING id
    db,             \* the tables as the connection sees them (uncommitted included)
    disk,           \* the tables as committed to db.sqlite
    added_scores,   \* the accepted results
    image_dir,      \* data_dir/images: whether it exists, and its files
    clock,          \* wall clock in seconds, as read by datetime.now()
    stdout,         \* the diagnostics printed so far
    report,         \* the rows print_scores hands to tabulate
    error,          \* the uncaught exception that ended the process, if any
    \* ---- inputs and outputs of the pure functions checked on their own ----
    lv_a, lv_b, lv_out,                 \* levenshtein_distance(lv_a, lv_b)
    cs_target, cs_strings, cs_out,      \* closest_string(cs_target, cs_strings)
    fc_name, fc_difficulty, fc_artist, fc_out,  \* find_chart_by_name(...)
    pr_chart, pr_score, pr_out          \* compute_play_rating / compute_grade

batch_vars == <<input_files, pc, idx, user_id, parsed, resolved, score_id, db, disk,
                added_scores, image_dir, clock, stdout, report, error>>
lv_vars == <<lv_a, lv_b, lv_out>>
cs_vars == <<cs_target, cs_strings, cs_out>>
fc_vars == <<fc_name, fc_difficulty, fc_artist, fc_out>>
pr_vars == <<pr_chart, pr_score, pr_out>>
vars == <<all_charts, batch_vars, lv_vars, cs_vars, fc_vars, pr_vars>>

\* Python's None.
None == [none |-> TRUE]

Range(s) == {s[i] : i \in 1..Len(s)}

(***************************************************************************)
(* String helpers (arcaea.py:16-58)                                        *)
(***************************************************************************)

Min3(x, y, z) == IF x <= y /\ x <= z THEN x ELSE IF y <= z THEN y ELSE z

\* The matrix after lines 21-27: zeros, first column i, first row j.
LevInitMatrix(rows, cols) ==
    [i \in 0..(rows - 1) |->
        [j \in 0..(cols - 1) |-> IF j = 0 THEN i ELSE IF i = 0 THEN j ELSE 0]]

\* A faulty variant: a substitution of equal characters costs 1 as well.
LevCellAlwaysCost(dist, str1, str2, i, j) ==
    Min3(dist[i - 1][j] + 1, dist[i][j - 1] + 1, dist[i - 1][j - 1] + 1)

\* One assignment of the inner loop body (lines 32-40); str1[i - 1] of the
\* 0-based Python string is str1[i] of the 1-based sequence.
LevCell(dist, str1, str2, i, j) ==
    LET cost == IF str1[i] = str2[j] THEN 0 ELSE 1
    IN  Min3(dist[i - 1][j] + 1, dist[i][j - 1] + 1, dist[i - 1][j - 1] + cost)

\* The inner loop of lines 31-40 for row i, from column j on. The matrix
\* after an assignment is bound by a set constructor, so that the next
\* iteration reads a value and not an expression still to evaluate.
RECURSIVE LevFillRow(_, _, _, _, _)
LevFillRow(dist, str1, str2, i, j) ==
    IF j > Len(str2) THEN dist
    ELSE CHOOSE out \in {LevFillRow(d, str1, str2, i, j + 1) :
                             d \in {[dist EXCEPT ![i][j] = LevCell(dist, str1, str2, i, j)]}} : TRUE

\* The outer loop of line 30, from row i on.
RECURSIVE LevFill(_, _, _, _)
LevFill(dist, str1, str2, i) ==
    IF i > Len(str1) THEN dist
    ELSE CHOOSE out \in {LevFill(d, str1, str2, i + 1) :
                             d \in {LevFillRow(dist, str1, str2, i, 1)}} : TRUE

levenshtein_distance(str1, str2) ==
    LevFill(LevInitMatrix(Len(str1) + 1, Len(str2) + 1), str1, str2, 1)
        [Len(str1)][Len(str2)]

\* float("inf"), the initial min_distance of closest_string: a value no
\* distance is equal to, above every distance in the comparison of line 51.
Inf == -1

\* A faulty variant: <= in place of <, so that the last of equal candidates wins.
LessOrEqual(distance, min_distance) ==
    min_distance = Inf \/ distance <= min_distance

\* distance < min_distance (line 51), min_distance being a number or inf.
LessThan(distance, min_distance) ==
    min_distance = Inf \/ distance < min_distance

\* The for loop of lines 49-53 from position k on; f is the key, a function
\* on the candidates.
RECURSIVE ClosestLoop(_, _, _, _, _)
ClosestLoop(target, strings, f, k, acc) ==
    IF k > Len(strings) THEN acc
    ELSE LET distance == levenshtein_distance(target, f[strings[k]])
         IN  ClosestLoop(target, strings, f, k + 1,
                 IF LessThan(distance, acc.min_distance)
                 THEN [closest |-> strings[k], min_distance |-> distance]
                 ELSE acc)

\* Returns the pair (closest, min_distance); (None, inf) for no candidates.
closest_string(target, strings, f) ==
    ClosestLoop(target, strings, f, 1, [closest |-> None, min_distance |-> Inf])

\* The default key f = lambda x: x.
Identity(strings) == [s \in Range(strings) |-> s]

(***************************************************************************)
(* Bounds and input domains of the pure-function specifications            *)
(***************************************************************************)

Alphabet == {"a", "b"}
MaxLen == 3        \* longest string given to levenshtein_distance
MaxKeyLen == 2     \* longest target or candidate key given to closest_string
MaxCands == 2      \* most candidates given to closest_string

Strings(n) == UNION {[1..k -> Alphabet] : k \in 0..n}

\* The values the variables of a function hold while another one is checked.
LevIdle == lv_a = <<>> /\ lv_b = <<>> /\ lv_out = <<>>
ClosestIdle == cs_target = <<>> /\ cs_strings = <<>> /\ cs_out = <<>>

(***************************************************************************)
(* levenshtein_distance on its own                                         *)
(***************************************************************************)

LevCompute ==
    /\ lv_out = <<>>
    /\ lv_out' = <<levenshtein_distance(lv_a, lv_b)>>
    /\ UNCHANGED <<lv_a, lv_b, all_charts, batch_vars, cs_vars, fc_vars, pr_vars>>

(***************************************************************************)
(* closest_string on its own. A candidate is a record with its key and its *)
(* position in the input, the key function being c |-> c.key.              *)
(***************************************************************************)

Candidates(n) ==
    UNION {{[i \in 1..k |-> [key |-> ks[i], pos |-> i]] : ks \in [1..k -> Strings(MaxKeyLen)]}
           : k \in 0..n}

KeyOf(strings) == [c \in Range(strings) |-> c.key]

ClosestCompute ==
    /\ cs_out = <<>>
    /\ cs_out' = <<closest_string(cs_target, cs_strings, KeyOf(cs_strings))>>
    /\ UNCHANGED <<cs_target, cs_strings, all_charts, batch_vars, lv_vars, fc_vars, pr_vars>>

(***************************************************************************)
(* Chart helpers (arcaea.py:97-146)                                        *)
(***************************************************************************)

Quon == <<"Q", "u", "o", "n">>

TitleOf(charts) == [c \in Range(charts) |-> c.title]
ArtistOf(charts) == [c \in Range(charts) |-> c.artist]

\* A faulty variant: the artist is never looked at.
UsesArtistNever(title, artist) == FALSE

\* The condition of lines 131-133 under which the artist is looked at.
UsesArtist(title, artist) == artist # None /\ title = Quon

\* Lines 134-139: keep the charts by the artist nearest to the parsed one.
NarrowByArtist(filtered, artist) ==
    LET chosen_artist == closest_string(artist, filtered, ArtistOf(filtered)).closest
        SameArtist(chart) == chart.artist = chosen_artist.artist
    IN  SelectSeq(filtered, SameArtist)

\* A faulty variant: the difficulty is not looked at.
FilterDifficultyNot(filtered, difficulty) == filtered

\* Line 141.
FilterDifficulty(filtered, difficulty) ==
    LET SameDifficulty(chart) == chart.difficulty = difficulty
    IN  SelectSeq(filtered, SameDifficulty)

\* What a call ends in: a returned value or the exception it raises.
Returned(value) == [exc |-> "", value |-> value]
Raised(exc) == [exc |-> exc, value |-> None]

\* find_chart_by_name over the catalog `charts` (the global all_charts).
\* closest["title"] on the None of an empty catalog raises TypeError
\* (line 130); filtered[0] on an empty list raises IndexError (line 143).
find_chart_by_name(charts, name, difficulty, artist) ==
    LET found == closest_string(name, charts, TitleOf(charts))
        closest == found.closest
        distance == found.min_distance
        SameTitle(chart) == chart.title = closest.title
        by_title == SelectSeq(charts, SameTitle)
        by_artist == IF UsesArtist(closest.title, artist)
                     THEN NarrowByArtist(by_title, artist)
                     ELSE by_title
        filtered == FilterDifficulty(by_artist, difficulty)
    IN  IF closest = None THEN Raised("TypeError")
        ELSE IF filtered = <<>> THEN Raised("IndexError")
        ELSE Returned([chart |-> filtered[1], distance |-> distance])

(***************************************************************************)
(* Arcaea helpers (arcaea.py:154-216). Play ratings are exact rationals in *)
(* units of 1/200000, the chart constant of a chart included: both         *)
(* divisions of compute_play_rating are exact in that unit.                *)
(***************************************************************************)

\* A faulty variant: the thresholds are inclusive.
compute_grade_inclusive(score) ==
    IF score >= 9900000 THEN "EX+"
    ELSE IF score >= 9800000 THEN "EX"
    ELSE IF score >= 9500000 THEN "AA"
    ELSE IF score >= 9200000 THEN "A"
    ELSE IF score >= 8900000 THEN "B"
    ELSE IF score >= 8600000 THEN "C"
    ELSE "D"

compute_grade(score) ==
    IF score > 9900000 THEN "EX+"
    ELSE IF score > 9800000 THEN "EX"
    ELSE IF score > 9500000 THEN "AA"
    ELSE IF score > 9200000 THEN "A"
    ELSE IF score > 8900000 THEN "B"
    ELSE IF score > 8600000 THEN "C"
    ELSE "D"

\* The three bonuses of lines 175, 177 and 179.
BonusTop(score) == 2 * 200000
BonusMid(score) == 200000 + (score - 9800000)
BonusLow(score) == 2 * (score - 9500000)

compute_play_rating(chart, score) ==
    IF score >= 10000000 THEN chart.chart_constant + BonusTop(score)
    ELSE IF score >= 9800000 THEN chart.chart_constant + BonusMid(score)
    ELSE chart.chart_constant + BonusLow(score)

\* The row print_scores builds for one accepted score (lines 187-208);
\* pm is the pure-memory rating, absent unless score > 10000000.
ScoreRow(entry) ==
    [title |-> entry.chart.title,
     difficulty |-> entry.chart.difficulty,
     level |-> entry.chart.level,
     score |-> entry.score,
     grade |-> compute_grade(entry.score),
     play_rating |-> compute_play_rating(entry.chart, entry.score),
     pm |-> IF entry.score > 10000000
            THEN <<entry.score - 10000000 - entry.chart.note_count>>
            ELSE <<>>,
     id |-> entry.score_id]

print_scores(scores) == [k \in 1..Len(scores) |-> ScoreRow(scores[k])]

(***************************************************************************)
(* Shell helpers and score parsing (arcaea.py:59-95, 236-265)              *)
(***************************************************************************)

\* The rectangles parse_score_image crops.
RegionTopLeft == <<0, 0, 320, 75>>
RegionSelectName == <<10, 360, 1100, 80>>
RegionSelectScore == <<0, 260, 320, 60>>
RegionResultName == <<300, 320, 1200, 110>>
RegionResultScore == <<850, 675, 470, 120>>
RegionResultMaxRecall == <<380, 590, 130, 50>>
RegionResultDifficulty == <<150, 540, 200, 40>>
Regions == {RegionTopLeft, RegionSelectName, RegionSelectScore, RegionResultName,
            RegionResultScore, RegionResultMaxRecall, RegionResultDifficulty}

\* The stripped text tesseract reads in a region of an image: an image is
\* modelled by what the OCR reads in each of its regions.
tesseract_region(image, region) == image.ocr[region]

DigitValue == [c \in {"0", "1", "2", "3", "4", "5", "6", "7", "8", "9"} |->
    CASE c = "0" -> 0 [] c = "1" -> 1 [] c = "2" -> 2 [] c = "3" -> 3 [] c = "4" -> 4
      [] c = "5" -> 5 [] c = "6" -> 6 [] c = "7" -> 7 [] c = "8" -> 8 [] c = "9" -> 9]

RECURSIVE DigitsToInt(_)
DigitsToInt(text) ==
    IF text = <<>> THEN 0
    ELSE 10 * DigitsToInt(SubSeq(text, 1, Len(text) - 1)) + DigitValue[text[Len(text)]]

\* int(text) of a stripped OCR text: ValueError unless it is a non-empty
\* string of digits.
IsNumeric(text) == text # <<>> /\ \A k \in 1..Len(text) : text[k] \in DOMAIN DigitValue
ParseInt(text) == IF IsNumeric(text) THEN Returned(DigitsToInt(text)) ELSE Raised("ValueError")

SelectASong == <<"S", "e", "l", "e", "c", "t", " ", "a", " ", "S", "o", "n", "g">>
Result == <<"R", "e", "s", "u", "l", "t">>

\* Lines 254-256 and the lookup table of lines 257-263.
DifficultyNames ==
    << <<"P", "A", "S", "T">>, <<"P", "R", "E", "S", "E", "N", "T">>,
       <<"F", "U", "T", "U", "R", "E">>, <<"E", "T", "E", "R", "N", "A", "L">>,
       <<"B", "E", "Y", "O", "N", "D">> >>
DifficultyTag(name) ==
    CASE name = DifficultyNames[1] -> "PST"
      [] name = DifficultyNames[2] -> "PRS"
      [] name = DifficultyNames[3] -> "FTR"
      [] name = DifficultyNames[4] -> "ETR"
      [] name = DifficultyNames[5] -> "BYD"

is_song_select(image) ==
    LET topleft_text == tesseract_region(image, RegionTopLeft)
    IN  levenshtein_distance(topleft_text, SelectASong)
            < levenshtein_distance(topleft_text, Result)

\* parse_score_image: the tuple (name, score, difficulty, artist, max_recall),
\* or the ValueError of an int() on a non-numeric text.
parse_score_image(image) ==
    IF is_song_select(image)
    THEN LET name == tesseract_region(image, RegionSelectName)
             score == ParseInt(tesseract_region(image, RegionSelectScore))
         IN  IF score.exc # "" THEN Raised(score.exc)
             ELSE Returned([name |-> name, score |-> score.value, difficulty |-> "FTR",
                            artist |-> None, max_recall |-> None])
    ELSE LET name == tesseract_region(image, RegionResultName)
             score == ParseInt(tesseract_region(image, RegionResultScore))
             max_recall == ParseInt(tesseract_region(image, RegionResultMaxRecall))
             difficulty == closest_string(tesseract_region(image, RegionResultDifficulty),
                                          DifficultyNames, Identity(DifficultyNames)).closest
         IN  IF score.exc # "" THEN Raised(score.exc)
             ELSE IF max_recall.exc # "" THEN Raised(max_recall.exc)
             ELSE Returned([name |-> name, score |-> score.value,
                            difficulty |-> DifficultyTag(difficulty),
                            artist |-> None, max_recall |-> max_recall.value])

(***************************************************************************)
(* The catalogs and the screenshots of the ingestion runs                  *)
(***************************************************************************)

MaxBatch == 2      \* most input files of one add_scores run
MaxClock == 3      \* last reading of the wall clock, in half seconds

Chart(id, title, difficulty, level, note_count, chart_constant, artist) ==
    [id |-> id, title |-> title, difficulty |-> difficulty, level |-> level,
     note_count |-> note_count, chart_constant |-> chart_constant, artist |-> artist]

ArtistF == <<"F", "e", "r", "y">>
ArtistD == <<"D", "J", " ", "N">>
TitleAx == <<"A", "x">>

\* Two songs titled Quon by two artists, both with an FTR chart, and a song
\* with a PST chart only. Chart constants 9.7, 10.1, 9.5 and 4.0.
MainCatalog ==
    << Chart(1, Quon, "FTR", "9+", 1073, 1940000, ArtistF),
       Chart(2, Quon, "BYD", "10", 1204, 2020000, ArtistF),
       Chart(3, Quon, "FTR", "9", 892, 1900000, ArtistD),
       Chart(4, TitleAx, "PST", "4", 301, 800000, ArtistD) >>
\* The catalog of a fresh database is empty.
Catalogs == {<<>>, MainCatalog}

NoText == [r \in Regions |-> <<>>]

SelectImage(name, score, ext) ==
    [exists |-> TRUE, ext |-> ext,
     ocr |-> [NoText EXCEPT ![RegionTopLeft] = SelectASong,
                            ![RegionSelectName] = name,
                            ![RegionSelectScore] = score]]

ResultImage(name, score, max_recall, difficulty, ext) ==
    [exists |-> TRUE, ext |-> ext,
     ocr |-> [NoText EXCEPT ![RegionTopLeft] = Result,
                            ![RegionResultName] = name,
                            ![RegionResultScore] = score,
                            ![RegionResultMaxRecall] = max_recall,
                            ![RegionResultDifficulty] = difficulty]]

\* A clean song-select screenshot of Quon, score 9876543.
ImgSelectGood == SelectImage(Quon, <<"9", "8", "7", "6", "5", "4", "3">>, ".png")
\* A result screenshot with OCR noise in the title and the difficulty label.
ImgResultGood ==
    ResultImage(<<"Q", "u", "0", "n">>, <<"1", "0", "0", "0", "0", "1", "2", "3">>,
                <<"1", "2", "3">>, <<"F", "U", "T", "U", "R">>, ".jpg")
\* Titles 7 and 8 edits away from Quon, and further from every other title.
ImgNear7 ==
    SelectImage(Quon \o <<"a", "b", "c", "d", "e", "f", "g">>,
                <<"9", "8", "0", "0", "0", "0", "0">>, ".png")
ImgFar8 ==
    SelectImage(Quon \o <<"a", "b", "c", "d", "e", "f", "g", "h">>,
                <<"9", "9", "0", "0", "0", "0", "1">>, ".png")
\* A garbled title.
ImgGarbled ==
    SelectImage(<<"z", "z", "z", "z", "z", "z", "z", "z", "z", "z">>,
                <<"1", "0", "0", "0", "0", "0", "0", "0">>, ".png")
\* A result screenshot of Quon on PAST, a difficulty Quon has no chart of.
ImgNoDifficulty ==
    ResultImage(Quon, <<"9", "5", "0", "0", "0", "0", "0">>, <<"4", "5">>,
                <<"P", "A", "S", "T">>, ".png")
\* A screenshot whose score region reads as no digits at all.
ImgBadScore == SelectImage(Quon, <<>>, ".png")
\* A path with no file behind it.
ImgMissing == [exists |-> FALSE, ext |-> ".png", ocr |-> NoText]

Images == {ImgSelectGood, ImgResultGood, ImgNear7, ImgFar8, ImgGarbled,
           ImgNoDifficulty, ImgBadScore, ImgMissing}

Batches(n) == UNION {[1..k -> Images] : k \in 0..n}

\* The Discord id on the command line, and the users table before the run:
\* the user known already, or another user only.
DiscordId == "caller"
UserRow(id, discord_id) == [id |-> id, discord_id |-> discord_id]
UsersTables == { <<UserRow(1, DiscordId)>>, <<UserRow(1, "other")>> }

(***************************************************************************)
(* User helpers (arcaea.py:219-231) and add_scores (arcaea.py:268-318)     *)
(***************************************************************************)

\* path exists (line 274).
Exists(input_file) == input_file.exists

\* A faulty variant: the threshold is inclusive.
AcceptsInclusive(distance) == distance # Inf /\ distance <= 8

\* distance < 8 (line 281); inf, were it to come this far, is not below 8.
Accepts(distance) == distance # Inf /\ distance < 8

\* strftime("%Y-%m-%d_%H-%M-%S") of a clock that counts half seconds: the
\* timestamp has the resolution of a second.
current_timestamp(now) == now \div 2

\* The row INSERT INTO scores adds (lines 284-291); the id is the rowid
\* SQLite assigns, one above the largest in the table.
NextScoreId(scores) == Len(scores) + 1
ScoreRecord(id, chart, user, p) ==
    [id |-> id, chart_id |-> chart.id, user_id |-> user, parsed_name |-> p.name,
     max_recall |-> p.max_recall, score |-> p.score]

\* A faulty variant: the commit is left out.
CommittedNothing(connection, durable) == durable

\* What conn.commit() leaves on disk (line 292).
Committed(connection, durable) == connection

\* The tuple appended to added_scores (line 293).
Accepted(chart, id, score) == [chart |-> chart, score_id |-> id, score |-> score]

\* The diagnostics (lines 275 and 311-314).
SkipDiagnostic(input_file) == [kind |-> "skip", file |-> input_file]
ConfusedDiagnostic(p, distance, destination) ==
    [kind |-> "confused", name |-> p.name, difficulty |-> p.difficulty,
     artist |-> p.artist, distance |-> distance, destination |-> destination]

\* The name of the quarantined copy (line 303).
Destination(timestamp, user, extension) ==
    [timestamp |-> timestamp, user_id |-> user, extension |-> extension]

BatchInit ==
    /\ input_files \in Batches(MaxBatch)
    /\ pc = "start"
    /\ idx = 1
    /\ user_id = 0
    /\ parsed = None
    /\ resolved = None
    /\ score_id = 0
    /\ \E users \in UsersTables : db = [users |-> users, scores |-> <<>>]
    /\ disk = db
    /\ added_scores = <<>>
    /\ image_dir = [exists |-> FALSE, files |-> <<>>]
    /\ clock = 0
    /\ stdout = <<>>
    /\ report = <<>>
    /\ error = ""

BatchIdle ==
    /\ input_files = <<>>
    /\ pc = "idle"
    /\ idx = 1
    /\ user_id = 0
    /\ parsed = None
    /\ resolved = None
    /\ score_id = 0
    /\ db = [users |-> <<>>, scores |-> <<>>]
    /\ disk = db
    /\ added_scores = <<>>
    /\ image_dir = [exists |-> FALSE, files |-> <<>>]
    /\ clock = 0
    /\ stdout = <<>>
    /\ report = <<>>
    /\ error = ""

other_vars == <<all_charts, lv_vars, cs_vars, fc_vars, pr_vars>>

\* get_user_id (line 270): the id of the user, inserted when not yet known.
GetUser ==
    /\ pc = "start"
    /\ LET known == {k \in 1..Len(db.users) : db.users[k].discord_id = DiscordId}
       IN  IF known # {}
           THEN /\ user_id' = db.users[CHOOSE k \in known : TRUE].id
                /\ db' = db
           ELSE /\ user_id' = Len(db.users) + 1
                /\ db' = [db EXCEPT !.users = Append(@, UserRow(Len(db.users) + 1, DiscordId))]
    /\ pc' = "loop"
    /\ UNCHANGED <<input_files, idx, parsed, resolved, score_id, disk, added_scores,
                   image_dir, clock, stdout, report, error, other_vars>>

\* A faulty variant: the loop is left at the first missing path.
SkipMissingBreaks ==
    /\ pc = "loop"
    /\ idx <= Len(input_files)
    /\ ~Exists(input_files[idx])
    /\ stdout' = Append(stdout, SkipDiagnostic(input_files[idx]))
    /\ idx' = Len(input_files) + 1
    /\ UNCHANGED <<input_files, pc, user_id, parsed, resolved, score_id, db, disk,
                   added_scores, image_dir, clock, report, error, other_vars>>

\* Lines 274-276: a path without a file is reported and passed over.
SkipMissing ==
    /\ pc = "loop"
    /\ idx <= Len(input_files)
    /\ ~Exists(input_files[idx])
    /\ stdout' = Append(stdout, SkipDiagnostic(input_files[idx]))
    /\ idx' = idx + 1
    /\ UNCHANGED <<input_files, pc, user_id, parsed, resolved, score_id, db, disk,
                   added_scores, image_dir, clock, report, error, other_vars>>

\* An exception nothing catches ends the process; the connection closes
\* without a commit, which rolls back what was not committed.
Uncaught(exc) ==
    /\ pc' = "error"
    /\ error' = exc
    /\ db' = disk

\* Line 278: parse_score_image on an existing file.
ParseImage ==
    /\ pc = "loop"
    /\ idx <= Len(input_files)
    /\ Exists(input_files[idx])
    /\ LET result == parse_score_image(input_files[idx])
       IN  IF result.exc # ""
           THEN Uncaught(result.exc) /\ UNCHANGED parsed
           ELSE /\ parsed' = result.value
                /\ pc' = "resolve"
                /\ UNCHANGED <<error, db>>
    /\ UNCHANGED <<input_files, idx, user_id, resolved, score_id, disk, added_scores,
                   image_dir, clock, stdout, report, other_vars>>

\* Lines 279-281: find_chart_by_name and the test of the distance.
ResolveChart ==
    /\ pc = "resolve"
    /\ LET result == find_chart_by_name(all_charts, parsed.name, parsed.difficulty,
                                        parsed.artist)
       IN  IF result.exc # ""
           THEN Uncaught(result.exc) /\ UNCHANGED resolved
           ELSE /\ resolved' = result.value
                /\ pc' = IF Accepts(result.value.distance) THEN "insert" ELSE "quarantine"
                /\ UNCHANGED <<error, db>>
    /\ UNCHANGED <<input_files, idx, user_id, parsed, score_id, disk, added_scores,
                   image_dir, clock, stdout, report, other_vars>>

\* Lines 284-291: the INSERT, inside the connection's open transaction.
InsertScore ==
    /\ pc = "insert"
    /\ score_id' = NextScoreId(db.scores)
    /\ db' = [db EXCEPT !.scores =
                 Append(@, ScoreRecord(NextScoreId(db.scores), resolved.chart, user_id, parsed))]
    /\ pc' = "commit"
    /\ UNCHANGED <<input_files, idx, user_id, parsed, resolved, disk, added_scores,
                   image_dir, clock, stdout, report, error, other_vars>>

\* Line 292.
Commit ==
    /\ pc = "commit"
    /\ disk' = Committed(db, disk)
    /\ pc' = "append"
    /\ UNCHANGED <<input_files, idx, user_id, parsed, resolved, score_id, db, added_scores,
                   image_dir, clock, stdout, report, error, other_vars>>

\* Line 293, and the loop goes on to the next file.
AppendScore ==
    /\ pc = "append"
    /\ added_scores' = Append(added_scores, Accepted(resolved.chart, score_id, parsed.score))
    /\ idx' = idx + 1
    /\ pc' = "loop"
    /\ UNCHANGED <<input_files, user_id, parsed, resolved, score_id, db, disk,
                   image_dir, clock, stdout, report, error, other_vars>>

\* Lines 297-314: the file is copied to data_dir/images under the timestamp
\* the clock gives when it is read, and the diagnostic is printed. A copy
\* onto an existing name replaces that file.
Quarantine ==
    /\ pc = "quarantine"
    /\ \E now \in clock..MaxClock :
        LET destination == Destination(current_timestamp(now), user_id, input_files[idx].ext)
        IN  /\ clock' = now
            /\ image_dir' = [exists |-> TRUE,
                             files |-> (destination :> input_files[idx]) @@ image_dir.files]
            /\ stdout' = Append(stdout,
                                ConfusedDiagnostic(parsed, resolved.distance, destination))
    /\ idx' = idx + 1
    /\ pc' = "loop"
    /\ UNCHANGED <<input_files, user_id, parsed, resolved, score_id, db, disk,
                   added_scores, report, error, other_vars>>

\* Line 317, after the last file; the process then ends, its connection
\* closing without a commit.
Report ==
    /\ pc = "loop"
    /\ idx > Len(input_files)
    /\ report' = print_scores(added_scores)
    /\ pc' = "done"
    /\ db' = disk
    /\ UNCHANGED <<input_files, idx, user_id, parsed, resolved, score_id, disk,
                   added_scores, image_dir, clock, stdout, error, other_vars>>

\* The process is killed, or the machine stops, at any point of the run:
\* what was not committed is gone.
Crash ==
    /\ pc \in {"start", "loop", "resolve", "insert", "commit", "append", "quarantine"}
    /\ pc' = "crashed"
    /\ db' = disk
    /\ UNCHANGED <<input_files, idx, user_id, parsed, resolved, score_id, disk,
                   added_scores, image_dir, clock, stdout, report, error, other_vars>>

ResolveIdle ==
    fc_name = <<>> /\ fc_difficulty = "" /\ fc_artist = None /\ fc_out = <<>>
RatingIdle == pr_chart = None /\ pr_score = 0 /\ pr_out = <<>>

Init ==
    /\ all_charts \in Catalogs
    /\ BatchInit
    /\ LevIdle /\ ClosestIdle /\ ResolveIdle /\ RatingIdle

Next ==
    \/ GetUser
    \/ SkipMissing
    \/ ParseImage
    \/ ResolveChart
    \/ InsertScore
    \/ Commit
    \/ AppendScore
    \/ Quarantine
    \/ Report
    \/ Crash

Spec == Init /\ [][Next]_vars


(***************************************************************************)
(* The pure functions on their own: the inputs are drawn in the initial    *)
(* state and one step applies the function.                                *)
(***************************************************************************)

InitLev ==
    /\ all_charts = <<>>
    /\ BatchIdle /\ ClosestIdle /\ ResolveIdle /\ RatingIdle
    /\ lv_a \in Strings(MaxLen)
    /\ lv_b \in Strings(MaxLen)
    /\ lv_out = <<>>

NextLev == LevCompute

SpecLev == InitLev /\ [][NextLev]_vars

InitClosest ==
    /\ all_charts = <<>>
    /\ BatchIdle /\ LevIdle /\ ResolveIdle /\ RatingIdle
    /\ cs_target \in Strings(MaxKeyLen)
    /\ cs_strings \in Candidates(MaxCands)
    /\ cs_out = <<>>

NextClosest == ClosestCompute

SpecClosest == InitClosest /\ [][NextClosest]_vars

\* A catalog in which a second title, too, is held under two artists.
DupCatalog ==
    << Chart(1, TitleAx, "PST", "4", 301, 800000, ArtistF),
       Chart(2, TitleAx, "PST", "5", 344, 1000000, ArtistD),
       Chart(3, Quon, "FTR", "9", 892, 1900000, ArtistD),
       Chart(4, Quon, "FTR", "9+", 1073, 1940000, ArtistF),
       Chart(5, Quon, "BYD", "10", 1204, 2020000, ArtistF) >>

ResolveCatalogs == {<<>>, MainCatalog, DupCatalog}
ResolveNames ==
    {Quon, <<"Q", "u", "0", "n">>, TitleAx, <<"A", "y">>, <<"Q", "x">>, <<>>}
ResolveDifficulties == {"PST", "PRS", "FTR", "ETR", "BYD"}
\* No hint, both artists as written, and hints with OCR noise; the empty
\* hint is as far from one artist as from the other.
ResolveArtists ==
    {None, ArtistF, ArtistD, <<"F", "e", "r">>, <<"D", "J">>, <<>>}

InitResolve ==
    /\ all_charts \in ResolveCatalogs
    /\ BatchIdle /\ LevIdle /\ ClosestIdle /\ RatingIdle
    /\ fc_name \in ResolveNames
    /\ fc_difficulty \in ResolveDifficulties
    /\ fc_artist \in ResolveArtists
    /\ fc_out = <<>>

ResolveCompute ==
    /\ fc_out = <<>>
    /\ fc_out' = <<find_chart_by_name(all_charts, fc_name, fc_difficulty, fc_artist)>>
    /\ UNCHANGED <<fc_name, fc_difficulty, fc_artist, all_charts, batch_vars, lv_vars,
                   cs_vars, pr_vars>>

NextResolve == ResolveCompute

SpecResolve == InitResolve /\ [][NextResolve]_vars

RatingWindow == 2  \* scores this far on either side of a threshold are drawn
Thresholds == {0, 8600000, 8900000, 9200000, 9500000, 9800000, 9900000, 10000000}
RatingScores == {t + d : t \in Thresholds, d \in 0..RatingWindow}
                    \cup {t - d : t \in Thresholds \ {0}, d \in 0..RatingWindow}

InitRating ==
    /\ all_charts = MainCatalog
    /\ BatchIdle /\ LevIdle /\ ClosestIdle /\ ResolveIdle
    /\ pr_chart \in Range(all_charts)
    /\ pr_score \in RatingScores
    /\ pr_out = <<>>

RatingCompute ==
    /\ pr_out = <<>>
    /\ pr_out' = <<[play_rating |-> compute_play_rating(pr_chart, pr_score),
                    grade |-> compute_grade(pr_score)]>>
    /\ UNCHANGED <<pr_chart, pr_score, all_charts, batch_vars, lv_vars, cs_vars, fc_vars>>

NextRating == RatingCompute

SpecRating == InitRating /\ [][NextRating]_vars

(***************************************************************************)
(* Properties of the text distance helpers                                 *)
(***************************************************************************)

\* The strings one insertion, deletion or substitution away from s.
OneEdit(s) ==
    {SubSeq(s, 1, k - 1) \o SubSeq(s, k + 1, Len(s)) : k \in 1..Len(s)}
        \cup {SubSeq(s, 1, k) \o <<c>> \o SubSeq(s, k + 1, Len(s)) :
                  k \in 0..Len(s), c \in Alphabet}
        \cup {[s EXCEPT ![k] = c] : k \in 1..Len(s), c \in Alphabet}

\* The least number of single edits from a string of `reached` to b, plus
\* n; no string longer than MaxLen + 1 is passed through.
RECURSIVE EditsFrom(_, _, _)
EditsFrom(reached, b, n) ==
    IF b \in reached THEN n
    ELSE EditsFrom(reached \cup {t \in UNION {OneEdit(s) : s \in reached} :
                                     Len(t) <= MaxLen + 1}, b, n + 1)

MinEdits(a, b) == EditsFrom({a}, b, 0)

\* C9: levenshtein_distance(a, b) is the least number of single-character
\* insertions, deletions and substitutions that turn a into b; so it is 0
\* for equal strings, the same in both directions, and the length of the
\* other string when one is empty.
C9_LevenshteinIsMinimumEdits ==
    lv_out # <<>> =>
        /\ lv_out[1] = MinEdits(lv_a, lv_b)
        /\ (lv_a = lv_b => lv_out[1] = 0)
        /\ lv_out[1] = levenshtein_distance(lv_b, lv_a)
        /\ (lv_a = <<>> => lv_out[1] = Len(lv_b))

\* Two different strings of full length that share no position: the
\* distance is computed and is the number of substitutions.
C9_Witness ==
    /\ lv_out # <<>>
    /\ Len(lv_a) = MaxLen /\ Len(lv_b) = MaxLen
    /\ \A k \in 1..MaxLen : lv_a[k] # lv_b[k]
    /\ lv_out[1] = MaxLen

\* The distance from the target to the key of the k-th candidate.
KeyDistance(k) == levenshtein_distance(cs_target, cs_strings[k].key)

\* C8: for a non-empty candidate sequence closest_string returns a
\* candidate at the least distance from the target, with that distance;
\* of several at that distance the first in input order; and the only
\* candidate when there is one.
C8_ClosestIsFirstMinimum ==
    (cs_out # <<>> /\ cs_strings # <<>>) =>
        LET closest == cs_out[1].closest
            min_distance == cs_out[1].min_distance
        IN  /\ closest \in Range(cs_strings)
            /\ min_distance = KeyDistance(closest.pos)
            /\ \A k \in 1..Len(cs_strings) : KeyDistance(k) >= min_distance
            /\ \A k \in 1..(closest.pos - 1) : KeyDistance(k) > min_distance
            /\ (Len(cs_strings) = 1 => closest = cs_strings[1])

\* Two candidates with different keys at the same distance: the first won.
C8_Witness ==
    /\ cs_out # <<>>
    /\ Len(cs_strings) >= 2
    /\ cs_strings[1].key # cs_strings[2].key
    /\ KeyDistance(1) = KeyDistance(2)
    /\ KeyDistance(1) > 0
    /\ cs_out[1].closest = cs_strings[1]

(***************************************************************************)
(* Properties of the chart resolver                                        *)
(***************************************************************************)

\* The charts of the catalog with a title, and the artists it is held under.
ChartsTitled(title) == {c \in Range(all_charts) : c.title = title}
ArtistsOf(title) == {c.artist : c \in ChartsTitled(title)}

\* The chart a call returned, when it returned one.
FcReturned == fc_out # <<>> /\ fc_out[1].exc = ""
FcChart == fc_out[1].value.chart

\* C7, as claimed: for any title held under more than one artist, a call
\* with an artist hint returns a chart by the artist nearest to the hint,
\* whenever each of the artists has a chart of the parsed difficulty.
C7_AnyTitleNarrowsByArtist ==
    (/\ FcReturned
     /\ fc_artist # None
     /\ Cardinality(ArtistsOf(FcChart.title)) > 1
     /\ \A a \in ArtistsOf(FcChart.title) :
            \E c \in ChartsTitled(FcChart.title) :
                c.artist = a /\ c.difficulty = fc_difficulty)
    => \A a \in ArtistsOf(FcChart.title) :
           levenshtein_distance(fc_artist, FcChart.artist)
               <= levenshtein_distance(fc_artist, a)

\* Position in the catalog of the first chart titled Quon whose artist is
\* at the least distance from the hint (0 when there is none).
QuonPositions == {k \in 1..Len(all_charts) : all_charts[k].title = Quon}
NearestQuonPosition ==
    IF QuonPositions = {} THEN 0
    ELSE CHOOSE k \in QuonPositions :
        \A j \in QuonPositions :
            LET dk == levenshtein_distance(fc_artist, all_charts[k].artist)
                dj == levenshtein_distance(fc_artist, all_charts[j].artist)
            IN  dk < dj \/ (dk = dj /\ k <= j)

\* Quon is the title nearest to the parsed name, the first such in catalog
\* order.
QuonWins ==
    /\ QuonPositions # {}
    /\ \A j \in 1..Len(all_charts) :
           LET dq == levenshtein_distance(fc_name, Quon)
               dj == levenshtein_distance(fc_name, all_charts[j].title)
           IN  dq < dj \/ (dq = dj /\ \E k \in QuonPositions : k <= j)

\* C7, amended: when the winning title is Quon, a call with an artist hint
\* returns the first chart in catalog order that is titled Quon, is by the
\* artist nearest to the hint (of two artists at the same distance, the one
\* met first in the catalog) and has the parsed difficulty; it returns one
\* whenever that artist has such a chart.
C7_QuonNarrowsByArtist ==
    (fc_out # <<>> /\ fc_artist # None /\ QuonWins) =>
        LET nearest == all_charts[NearestQuonPosition].artist
            wanted == {k \in QuonPositions :
                          /\ all_charts[k].artist = nearest
                          /\ all_charts[k].difficulty = fc_difficulty}
        IN  IF wanted = {}
            THEN fc_out[1].exc = "IndexError"
            ELSE /\ fc_out[1].exc = ""
                 /\ FcChart = all_charts[CHOOSE k \in wanted : \A j \in wanted : k <= j]

\* A hint naming the artist whose Quon chart comes second in the catalog,
\* both artists having a chart of the parsed difficulty: the second chart
\* was returned.
C7_Witness ==
    /\ FcReturned
    /\ fc_artist # None
    /\ FcChart.title = Quon
    /\ \E k \in QuonPositions :
           /\ all_charts[k].artist # FcChart.artist
           /\ all_charts[k].difficulty = fc_difficulty
           /\ all_charts[k].id < FcChart.id

(***************************************************************************)
(* Properties of the rating functions                                      *)
(***************************************************************************)

\* C10: play_rating is continuous at both breakpoints. At 9,800,000 the
\* branch used below it and the branch used from it on both give the chart
\* constant + 1, and at 10,000,000 the two adjacent branches both give the
\* chart constant + 2 (ratings in units of 1/200000).
C10_ContinuousAtBreakpoints ==
    pr_out # <<>> =>
        /\ pr_score = 9800000 =>
               /\ pr_chart.chart_constant + BonusLow(pr_score)
                      = pr_chart.chart_constant + 200000
               /\ pr_out[1].play_rating = pr_chart.chart_constant + 200000
        /\ pr_score = 10000000 =>
               /\ pr_chart.chart_constant + BonusMid(pr_score)
                      = pr_chart.chart_constant + 2 * 200000
               /\ pr_out[1].play_rating = pr_chart.chart_constant + 2 * 200000

(***************************************************************************)
(* Properties of add_scores                                                *)
(***************************************************************************)

Last(seq) == seq[Len(seq)]
Diagnostics(kind) == {k \in 1..Len(stdout) : stdout[k].kind = kind}
MissingBefore(n) == {k \in 1..(n - 1) : ~input_files[k].exists}
ExistingBefore(n) == {k \in 1..(n - 1) : input_files[k].exists}

\* The title text of an image, read in the region of its layout.
NameTexts(image) == {image.ocr[RegionSelectName], image.ocr[RegionResultName]}

\* C1: an image that exists, parses and resolves gets a score row if and
\* only if the distance is below 8. Below 8 exactly one row (chart id, user
\* id, raw parsed title, max-recall, score) is inserted and the image joins
\* the accepted results; from 8 on the image is copied to the quarantine
\* directory, no row is inserted and the accepted results stay as they are.
\* Every file dealt with is in exactly one of: accepted, quarantined, skipped.
C1_RecordIffBelowThreshold ==
    /\ Len(added_scores) + Cardinality(Diagnostics("confused"))
           + Cardinality(Diagnostics("skip")) = idx - 1
    /\ pc \notin {"commit", "append", "crashed"} => Len(db.scores) = Len(added_scores)
    /\ \A k \in 1..Len(added_scores) :
           /\ k <= Len(db.scores)
           /\ db.scores[k].id = added_scores[k].score_id
           /\ db.scores[k].chart_id = added_scores[k].chart.id
           /\ db.scores[k].score = added_scores[k].score
    /\ (pc = "loop" /\ idx > 1 /\ input_files[idx - 1].exists) =>
           /\ parsed.name \in NameTexts(input_files[idx - 1])
           /\ IF resolved.distance < 8
              THEN /\ added_scores # <<>>
                   /\ Last(added_scores) =
                          [chart |-> resolved.chart, score_id |-> Len(db.scores),
                           score |-> parsed.score]
                   /\ Last(db.scores) =
                          [id |-> Len(db.scores), chart_id |-> resolved.chart.id,
                           user_id |-> user_id, parsed_name |-> parsed.name,
                           max_recall |-> parsed.max_recall, score |-> parsed.score]
              ELSE /\ stdout # <<>>
                   /\ Last(stdout).kind = "confused"
                   /\ Last(stdout).distance = resolved.distance
                   /\ image_dir.exists
                   /\ Last(stdout).destination \in DOMAIN image_dir.files
                   /\ image_dir.files[Last(stdout).destination] = input_files[idx - 1]

\* An image at distance 8 was quarantined and then one at distance 7 accepted.
C1_Witness ==
    /\ pc = "loop"
    /\ idx = 3
    /\ resolved # None
    /\ resolved.distance = 7
    /\ Len(added_scores) = 1
    /\ \E k \in Diagnostics("confused") : stdout[k].distance = 8

\* The catalog has charts, and none with the title nearest to the parsed
\* one has the parsed difficulty.
MatchNotFound ==
    /\ all_charts # <<>>
    /\ LET title == closest_string(parsed.name, all_charts, TitleOf(all_charts)).closest.title
       IN  \A c \in Range(all_charts) :
               c.title = title => c.difficulty # parsed.difficulty

\* C2: when no chart with the winning title has the parsed difficulty, the
\* resolver throws nothing and the image goes to quarantine, as one at a
\* distance of 8 or more does.
C2_MatchNotFoundIsQuarantined ==
    [][(pc = "resolve" /\ MatchNotFound /\ pc' # "crashed")
           => (pc' = "quarantine" /\ error' = "")]_vars

\* The score region of the layout of an image, or its max-recall region,
\* reads as something other than digits.
NonNumeric(image) ==
    IF is_song_select(image)
    THEN ~IsNumeric(image.ocr[RegionSelectScore])
    ELSE \/ ~IsNumeric(image.ocr[RegionResultScore])
         \/ ~IsNumeric(image.ocr[RegionResultMaxRecall])

\* C3: an image with non-numeric text in a numeric region is skipped: no
\* error leaves add_scores, no row is written and the loop moves on to the
\* next file.
C3_ParseErrorSkipsImage ==
    [][(/\ pc = "loop"
        /\ idx <= Len(input_files)
        /\ input_files[idx].exists
        /\ NonNumeric(input_files[idx])
        /\ pc' # "crashed")
           => (pc' = "loop" /\ idx' = idx + 1 /\ error' = "" /\ db' = db)]_vars

\* C4: a path without a file yields one skip diagnostic and nothing else:
\* the step that passes it over changes the position and the output only,
\* so that the files after it meet the state they would meet without it.
\* No such path is parsed, persisted or quarantined, the run reaches the
\* end of the batch, and the report has one row per accepted image.
C4_SkipStep ==
    (pc = "loop" /\ idx <= Len(input_files) /\ ~input_files[idx].exists /\ pc' # "crashed")
        => /\ pc' = "loop"
           /\ idx' = idx + 1
           /\ stdout' = Append(stdout, [kind |-> "skip", file |-> input_files[idx]])
           /\ UNCHANGED <<input_files, all_charts, user_id, parsed, resolved, score_id, db,
                          disk, added_scores, image_dir, clock, report, error>>

C4_SkipAccounting ==
    /\ Cardinality(Diagnostics("skip")) = Cardinality(MissingBefore(idx))
    /\ Len(added_scores) + Cardinality(Diagnostics("confused"))
           = Cardinality(ExistingBefore(idx))
    /\ pc = "done" =>
           /\ idx = Len(input_files) + 1
           /\ Len(report) = Len(added_scores)
           /\ \A k \in 1..Len(report) :
                  /\ report[k].id = added_scores[k].score_id
                  /\ report[k].score = added_scores[k].score
                  /\ report[k].title = added_scores[k].chart.title

C4_MissingPathIsSkipped == []C4_SkipAccounting /\ [][C4_SkipStep]_vars

\* A run that ended after a missing path followed by an accepted image.
C4_Witness ==
    /\ pc = "done"
    /\ Len(input_files) = 2
    /\ ~input_files[1].exists
    /\ Len(report) = 1
    /\ Cardinality(Diagnostics("skip")) = 1

\* C5: with an empty catalog a run ends in an EmptyCatalog error before it
\* has parsed any image.
C5_EmptyCatalogAbortsFirst ==
    all_charts = <<>> =>
        /\ parsed = None
        /\ error \in {"", "EmptyCatalog"}

\* C6: whatever is in the accepted results is on disk, at every point at
\* which the process can stop; of the files before the one being processed
\* every accepted one is therefore stored, and only the image in progress
\* can lose its row.
C6_AcceptedIsDurable ==
    /\ \A k \in 1..Len(added_scores) :
           \E j \in 1..Len(disk.scores) :
               /\ disk.scores[j].id = added_scores[k].score_id
               /\ disk.scores[j].chart_id = added_scores[k].chart.id
               /\ disk.scores[j].score = added_scores[k].score
    /\ Len(disk.scores) <= Len(added_scores) + 1
    /\ Len(added_scores) + Cardinality(Diagnostics("confused"))
           + Cardinality(Diagnostics("skip")) = idx - 1

\* The process stopped between the INSERT and the commit of a second
\* score: the first accepted score is on disk, the second is gone.
C6_Witness ==
    /\ pc = "crashed"
    /\ score_id = 2
    /\ Len(added_scores) = 1
    /\ Len(disk.scores) = 1
    /\ db = disk

\* C11: the grade of a score is exactly one of EX+, EX, AA, A, B, C, D by
\* strict thresholds: EX+ iff above 9,900,000, EX iff above 9,800,000 and
\* at most 9,900,000, AA iff above 9,500,000 and at most 9,800,000, A iff
\* above 9,200,000 and at most 9,500,000, B iff above 8,900,000 and at most
\* 9,200,000, C iff above 8,600,000 and at most 8,900,000, D otherwise; a
\* score on a threshold gets the lower grade.
C11_GradeByStrictThresholds ==
    pr_out # <<>> =>
        LET grade == pr_out[1].grade
        IN  /\ grade \in {"EX+", "EX", "AA", "A", "B", "C", "D"}
            /\ grade = "EX+" <=> pr_score > 9900000
            /\ grade = "EX" <=> (9800000 < pr_score /\ pr_score <= 9900000)
            /\ grade = "AA" <=> (9500000 < pr_score /\ pr_score <= 9800000)
            /\ grade = "A" <=> (9200000 < pr_score /\ pr_score <= 9500000)
            /\ grade = "B" <=> (8900000 < pr_score /\ pr_score <= 9200000)
            /\ grade = "C" <=> (8600000 < pr_score /\ pr_score <= 8900000)
            /\ grade = "D" <=> pr_score <= 8600000
            /\ (pr_score = 9900000 => grade = "EX")
            /\ (pr_score = 9900001 => grade = "EX+")

\* A score on the highest threshold was graded, and got the lower grade.
C11_Witness ==
    /\ pr_out # <<>>
    /\ pr_score = 9900000
    /\ pr_out[1].grade = "EX"

\* Position in the catalog of the first chart whose title is at the least
\* edit distance from the parsed title (0 in an empty catalog).
WinningPosition ==
    IF all_charts = <<>> THEN 0
    ELSE CHOOSE k \in 1..Len(all_charts) :
        \A j \in 1..Len(all_charts) :
            LET dk == levenshtein_distance(fc_name, all_charts[k].title)
                dj == levenshtein_distance(fc_name, all_charts[j].title)
            IN  dk < dj \/ (dk = dj /\ k <= j)
WinningTitle == all_charts[WinningPosition].title

\* Positions of the charts with the winning title that are left after the
\* artist narrowing: with a hint and the title Quon, the charts by the
\* artist nearest to the hint; otherwise every chart with that title.
NarrowedPositions ==
    {k \in 1..Len(all_charts) :
        /\ all_charts[k].title = WinningTitle
        /\ (fc_artist # None /\ WinningTitle = Quon)
               => all_charts[k].artist = all_charts[NearestQuonPosition].artist}

\* C12: whenever a chart is returned, its title is the catalog title nearest
\* to the parsed title, its difficulty is the parsed difficulty, it is the
\* first chart of that difficulty in catalog order among the candidates left
\* after the artist narrowing, and the returned distance is the edit distance
\* between the parsed title and the winning title.
C12_ReturnedChartIsFirstMatch ==
    FcReturned =>
        /\ FcChart.title = WinningTitle
        /\ FcChart.difficulty = fc_difficulty
        /\ \E k \in NarrowedPositions :
               /\ all_charts[k] = FcChart
               /\ \A j \in NarrowedPositions :
                      all_charts[j].difficulty = fc_difficulty => k <= j
        /\ fc_out[1].value.distance = levenshtein_distance(fc_name, WinningTitle)
        /\ \A c \in Range(all_charts) :
               fc_out[1].value.distance <= levenshtein_distance(fc_name, c.title)

\* A misread title and an artist hint: the chart returned is not the first
\* of its title in the catalog, charts before it having been dropped by the
\* narrowing or by the difficulty, and the distance returned is not zero.
C12_Witness ==
    /\ FcReturned
    /\ fc_artist # None
    /\ fc_out[1].value.distance > 0
    /\ \E k \in NarrowedPositions :
           /\ all_charts[k] = FcChart
           /\ \E j \in 1..(k - 1) : all_charts[j].title = FcChart.title
           /\ \E j \in NarrowedPositions : j < k

\* The images of the batch differ from one another.
DistinctImages ==
    \A i, j \in 1..Len(input_files) : i # j => input_files[i] # input_files[j]

\* C13, as claimed: every quarantined image stays in the quarantine
\* directory. In a batch of images that differ, two quarantined images never
\* get the same destination name, the copy under each reported destination
\* is still the image that was reported, and the directory holds one file
\* per quarantined image.
C13_QuarantinedCopiesArePreserved ==
    DistinctImages =>
        /\ \A k, j \in Diagnostics("confused") :
               k # j => stdout[k].destination # stdout[j].destination
        /\ \A k \in Diagnostics("confused") :
               /\ stdout[k].destination \in DOMAIN image_dir.files
               /\ stdout[k].name
                      \in NameTexts(image_dir.files[stdout[k].destination])
        /\ Cardinality(DOMAIN image_dir.files)
               = Cardinality(Diagnostics("confused"))

====
